---- MODULE Spec2Model ----
(***************************************************************************)
(* Model of the social-events server: the /events router                   *)
(* (routes/eventsRoutes.js) and the /join-event and /joined handlers of    *)
(* the serverless entry point (api/index.js).                              *)
(*                                                                         *)
(* A request handler is an async function.  It runs without interruption   *)
(* up to an `await` on a store call; the store executes the call at some   *)
(* later moment and the handler continues from there.  One action of the   *)
(* model is therefore one store call together with the synchronous code    *)
(* that follows it.  The synchronous code in front of a handler's first    *)
(* store call reads nothing but the request, so it is part of the action   *)
(* of that first store call.                                               *)
(***************************************************************************)
EXTENDS Integers, Sequences, FiniteSets, TLC

\* ------------------------------------------------------------------ bounds
NProcs == 2        \* requests that can be in progress at the same time
MaxTime == 1       \* the clock runs from 0 to MaxTime
MaxEvents == 2     \* documents the events collection can hold
MaxJoins == 2      \* documents the joinedEvents collection can hold
MaxRequests == 3   \* requests received in one run

Procs == 1..NProcs

\* ------------------------------------------------------------- input values
\* Text values of a request body: "" stands for every falsy value (missing,
\* null, empty string), "A" and "B" for two different non-empty texts.
TextFields == {"title", "description", "eventType", "thumbnail", "location"}
Texts == {"A", "B"}
Emails == {"", "a@x.com", "b@x.com"}

\* The text part of a create or update body: the five fields, those in e falsy.
Body(t, e) == [f \in TextFields |-> IF f \in e THEN "" ELSE t]

\* All five fields given, or any one of them falsy, or all of them falsy.
EmptySets == {{}} \cup {{f} : f \in TextFields} \cup {TextFields}
Bodies == {Body(t, e) : t \in Texts, e \in EmptySets}

\* The bodies of the requests that run concurrently: complete, or no title.
FewBodies == {Body(t, {}) : t \in Texts} \cup {Body("A", {"title"})}

\* The eventDate of a body: missing (""), a string Date cannot parse, or a
\* string that Date parses to the instant ms.
DateStrings ==
  {[text |-> "", ms |-> 0], [text |-> "garbage", ms |-> 0]}
    \cup {[text |-> "iso", ms |-> t] : t \in 0..(MaxTime + 1)}

\* An id string: empty, not an ObjectId ("junk"), or the 24 hex digits of the
\* ObjectId number n.  MaxEvents + 1 is an ObjectId no document ever gets.
IdStrings ==
  {[kind |-> "", n |-> 0], [kind |-> "junk", n |-> 0]}
    \cup {[kind |-> "hex", n |-> i] : i \in 1..(MaxEvents + 1)}

\* JavaScript's `!x` on a request value.
Falsy(x) == x = ""

\* new Date(s): an invalid Date (getTime() is NaN) unless s parses.
NewDate(s) ==
  IF s.text = "iso" THEN [nan |-> FALSE, ms |-> s.ms] ELSE [nan |-> TRUE, ms |-> 0]

\* ObjectId.isValid(s) and new ObjectId(s).
IsValid(s) == s.kind = "hex"
ToObjectId(s) == s.n

\* ------------------------------------------------------------------- state
VARIABLES
  clock,    \* what new Date() returns now
  events,   \* the events collection: events[i] is the document with _id i
  joined,   \* the joinedEvents collection, in insertion order
  req,      \* req[p]: the request in slot p: its handler's position and locals
  nreq,     \* requests received so far
  probe,    \* SpecProbe: the one request of the run, as it was received
  proc      \* the process: the initialized flag of the entry point, and how
            \* often init has called connect and has registered the routes

vars == <<clock, events, joined, req, nreq, probe, proc>>

\* A process that has served no request, and one whose first request went
\* through init.
Cold == [initialized |-> FALSE, connects |-> 0, registered |-> 0]
Warm == [initialized |-> TRUE, connects |-> 1, registered |-> 1]

NoDoc == [none |-> TRUE]
NoResp == [status |-> 0, message |-> "", id |-> 0, count |-> 0, docs |-> <<>>]

\* A slot: op and pc are the handler and its position; id, email, doc and now
\* are the handler's locals that its later code reads; seen is the number of
\* joinedEvents documents the duplicate check of a join looked at; resp is
\* the answer.
Idle == [op |-> "", pc |-> "idle", id |-> 0, email |-> "", doc |-> NoDoc, now |-> 0,
         seen |-> 0, resp |-> NoResp]

\* res.status(s).json({ok, message, ...}): the answer of a request.
Resp(s, m) == [NoResp EXCEPT !.status = s, !.message = m]
RespId(s, m, i) == [NoResp EXCEPT !.status = s, !.message = m, !.id = i]
RespCount(s, m, n) == [NoResp EXCEPT !.status = s, !.message = m, !.count = n]
RespDocs(s, d) == [NoResp EXCEPT !.status = s, !.count = Len(d), !.docs = d]

\* The handler has answered r.
Done(o, r) == [Idle EXCEPT !.op = o, !.pc = "done", !.resp = r]

\* The route handlers can take a request in slot p: a new one, which init
\* lets through (line 41), or the one whose `await init()` now returns.
Free(p) ==
  \/ req[p].pc \in {"idle", "done"} /\ nreq < MaxRequests /\ proc.initialized
  \/ req[p].pc = "connect"

\* `await init()` of the request a route handler takes in slot p: nothing
\* for a new request; for one that waited for connect, the rest of init
\* (lines 45-268), which registers the routes and sets the flag.
AfterInit(p) ==
  IF req[p].pc = "connect"
  THEN /\ nreq' = nreq
       /\ proc' = [proc EXCEPT !.initialized = TRUE, !.registered = @ + 1]
  ELSE /\ nreq' = nreq + 1
       /\ proc' = proc

\* The handler of slot p waits for a store call.
Waiting(p) == req[p].pc \notin {"idle", "done"}

Answer(p, o, r) ==
  /\ req' = [req EXCEPT ![p] = Done(o, r)]

\* A request as received: the route (op) and what the handler reads of it.
Request(o, id, b, date, e, skew) ==
  [op |-> o, id |-> id, b |-> b, date |-> date, email |-> e, skew |-> skew]

NoId == [kind |-> "", n |-> 0]
NoDate == [text |-> "", ms |-> 0]
NoProbe == Request("none", NoId, Body("A", {}), NoDate, "", 0)

Init ==
  /\ clock = 0
  /\ events = <<>>
  /\ joined = <<>>
  /\ req = [p \in Procs |-> Idle]
  /\ nreq = 0
  /\ probe = NoProbe
  /\ proc = Warm

\* Time passes.
Tick ==
  /\ clock < MaxTime
  /\ clock' = clock + 1
  /\ UNCHANGED <<events, joined, req, nreq, probe, proc>>

\* ---------------------------------------------------------------- the store
\* collection.findOne({_id}) on events.
FindEvent(id) == IF id \in 1..Len(events) THEN events[id] ELSE NoDoc

\* A findOne whose filter names the field `email`, which no joinedEvents
\* document has: it finds nothing.
FindJoinedWrongKey(eventId, userEmail) ==
  \E i \in 1..Len(joined) :
    /\ joined[i].eventId = eventId
    /\ "email" \in DOMAIN joined[i]
    /\ joined[i].email = userEmail

\* joinedCollection.findOne({eventId, userEmail}): is there such a document.
FindJoined(eventId, userEmail) ==
  \E i \in 1..Len(joined) : joined[i].eventId = eventId /\ joined[i].userEmail = userEmail

\* find(filter).sort({eventDate: 1}).toArray() over the documents coll[i], i in
\* idx: every order of them that ascends by eventDate (the store fixes no
\* order among equal dates).
SortedByDate(coll, idx) ==
  {s \in [1..Cardinality(idx) -> idx] :
     /\ \A i, j \in 1..Cardinality(idx) : i # j => s[i] # s[j]
     /\ \A i, j \in 1..Cardinality(idx) : i < j => coll[s[i]].eventDate <= coll[s[j]].eventDate}

Docs(coll, s) == [i \in 1..Len(s) |-> coll[s[i]]]

\* ------------------------------------------------------------ POST /events
\* Lines 23-31: a falsy field.
MissingCreateField(b, date, creatorEmail) ==
  \/ \E f \in TextFields : Falsy(b[f])
  \/ Falsy(date.text)
  \/ Falsy(creatorEmail)

\* A date check that lets the current instant pass (< for <=).
DateCheckNotBefore(d, now) ==
  IF d.nan THEN "Invalid event date."
  ELSE IF d.ms < now THEN "Event date must be a future date."
  ELSE ""

\* Lines 41 and 48 (and 276, 283): the date checks' message, "" when the date
\* passes.
DateCheck(d, now) ==
  IF d.nan THEN "Invalid event date."
  ELSE IF d.ms <= now THEN "Event date must be a future date."
  ELSE ""

\* A document whose eventDate is shifted (a local-time reading of the string).
CreateDocShifted(b, d, creatorEmail, createdAt) ==
  [title |-> b.title, description |-> b.description, eventType |-> b.eventType,
   thumbnail |-> b.thumbnail, location |-> b.location, eventDate |-> d.ms + 1,
   creatorEmail |-> creatorEmail, createdAt |-> createdAt]

\* Lines 55-64.
CreateDoc(b, d, creatorEmail, createdAt) ==
  [title |-> b.title, description |-> b.description, eventType |-> b.eventType,
   thumbnail |-> b.thumbnail, location |-> b.location, eventDate |-> d.ms,
   creatorEmail |-> creatorEmail, createdAt |-> createdAt]

\* The handler from the request to its insertOne call.  `now` (line 39) and
\* createdAt (line 63) are two readings of the clock: it has advanced by skew
\* between them.
CreateStart(p, b, date, creatorEmail, skew) ==
  /\ Free(p)
  /\ clock + skew <= MaxTime
  /\ AfterInit(p)
  /\ LET d == NewDate(date)
         now == clock
     IN IF MissingCreateField(b, date, creatorEmail)
        THEN /\ skew = 0
             /\ Answer(p, "create", Resp(400, "All fields are required."))
        ELSE IF DateCheck(d, now) # ""
        THEN /\ skew = 0
             /\ Answer(p, "create", Resp(400, DateCheck(d, now)))
        ELSE req' = [req EXCEPT ![p] =
                       [Idle EXCEPT !.op = "create", !.pc = "insert",
                                    !.doc = CreateDoc(b, d, creatorEmail, clock + skew)]]
  /\ clock' = clock + skew
  /\ UNCHANGED <<events, joined, probe>>

\* An insert that is sent a second time.
CreateInsertTwice(p) ==
  /\ req[p].op = "create" /\ req[p].pc = "insert"
  /\ Len(events) + 1 < MaxEvents
  /\ LET id == Len(events) + 1
     IN /\ events' = Append(Append(events, [_id |-> id] @@ req[p].doc),
                            [_id |-> id + 1] @@ req[p].doc)
        /\ Answer(p, "create", RespId(201, "Event created successfully!", id))
  /\ UNCHANGED <<clock, joined, nreq, probe, proc>>

\* eventsCollection.insertOne(doc) and the 201 answer (lines 66-72).
CreateInsert(p) ==
  /\ req[p].op = "create" /\ req[p].pc = "insert"
  /\ Len(events) < MaxEvents
  /\ LET id == Len(events) + 1
     IN /\ events' = Append(events, [_id |-> id] @@ req[p].doc)
        /\ Answer(p, "create", RespId(201, "Event created successfully!", id))
  /\ UNCHANGED <<clock, joined, nreq, probe, proc>>

\* --------------------------------------------------------- PUT /events/:id
\* Lines 259-266.
MissingUpdateField(b, date) ==
  \/ \E f \in TextFields : Falsy(b[f])
  \/ Falsy(date.text)

\* Lines 290-299: the $set document.
UpdateDoc(b, d) ==
  [title |-> b.title, description |-> b.description, eventType |-> b.eventType,
   thumbnail |-> b.thumbnail, location |-> b.location, eventDate |-> d.ms]

\* updateOne's $set: the fields of u replace those of the document.
SetFields(doc, u) == [f \in DOMAIN doc |-> IF f \in DOMAIN u THEN u[f] ELSE doc[f]]

\* The checks with the fields and the date validated before the creator.
UpdateCheckFieldsFirst(id, b, date, requestorEmail, existing, now) ==
  IF ~IsValid(id) THEN Resp(400, "Invalid event id.")
  ELSE IF Falsy(requestorEmail) THEN Resp(400, "requestorEmail is required.")
  ELSE IF existing = NoDoc THEN Resp(404, "Event not found.")
  ELSE IF MissingUpdateField(b, date) THEN Resp(400, "All fields are required.")
  ELSE IF DateCheck(NewDate(date), now) # "" THEN Resp(400, DateCheck(NewDate(date), now))
  ELSE IF existing.creatorEmail # requestorEmail
    THEN Resp(403, "You are not allowed to update this event.")
  ELSE NoResp

\* The checks with the Event looked up before requestorEmail is required.
UpdateCheckLookupFirst(id, b, date, requestorEmail, existing, now) ==
  IF ~IsValid(id) THEN Resp(400, "Invalid event id.")
  ELSE IF existing = NoDoc THEN Resp(404, "Event not found.")
  ELSE IF Falsy(requestorEmail) THEN Resp(400, "requestorEmail is required.")
  ELSE IF existing.creatorEmail # requestorEmail
    THEN Resp(403, "You are not allowed to update this event.")
  ELSE IF MissingUpdateField(b, date) THEN Resp(400, "All fields are required.")
  ELSE IF DateCheck(NewDate(date), now) # "" THEN Resp(400, DateCheck(NewDate(date), now))
  ELSE NoResp

\* The checks without the comparison of requestorEmail with the creator.
UpdateCheckAnyRequestor(id, b, date, requestorEmail, existing, now) ==
  IF ~IsValid(id) THEN Resp(400, "Invalid event id.")
  ELSE IF Falsy(requestorEmail) THEN Resp(400, "requestorEmail is required.")
  ELSE IF existing = NoDoc THEN Resp(404, "Event not found.")
  ELSE IF MissingUpdateField(b, date) THEN Resp(400, "All fields are required.")
  ELSE IF DateCheck(NewDate(date), now) # "" THEN Resp(400, DateCheck(NewDate(date), now))
  ELSE NoResp

\* Lines 227-288: the answer of the checks, given what findOne returned, or
\* NoResp when the update goes ahead.
UpdateCheck(id, b, date, requestorEmail, existing, now) ==
  IF ~IsValid(id) THEN Resp(400, "Invalid event id.")
  ELSE IF Falsy(requestorEmail) THEN Resp(400, "requestorEmail is required.")
  ELSE IF existing = NoDoc THEN Resp(404, "Event not found.")
  ELSE IF existing.creatorEmail # requestorEmail
    THEN Resp(403, "You are not allowed to update this event.")
  ELSE IF MissingUpdateField(b, date) THEN Resp(400, "All fields are required.")
  ELSE IF DateCheck(NewDate(date), now) # "" THEN Resp(400, DateCheck(NewDate(date), now))
  ELSE NoResp

\* The handler from the request to its updateOne call: the checks of the id
\* and of requestorEmail, findOne, and the code after it, which reads the
\* clock.
UpdateStart(p, id, b, date, requestorEmail) ==
  /\ Free(p)
  /\ AfterInit(p)
  /\ LET existing == IF IsValid(id) THEN FindEvent(ToObjectId(id)) ELSE NoDoc
         r == UpdateCheck(id, b, date, requestorEmail, existing, clock)
     IN IF r # NoResp
        THEN Answer(p, "update", r)
        ELSE req' = [req EXCEPT ![p] =
                       [Idle EXCEPT !.op = "update", !.pc = "write", !.id = ToObjectId(id),
                                    !.email = requestorEmail,
                                    !.doc = UpdateDoc(b, NewDate(date))]]
  /\ UNCHANGED <<clock, events, joined, probe>>

\* An update that also rewrites the snapshots of the Event's Participations.
UpdateWriteSync(p) ==
  /\ req[p].op = "update" /\ req[p].pc = "write"
  /\ LET id == req[p].id
         u == req[p].doc
     IN /\ id \in 1..Len(events)
        /\ events' = [events EXCEPT ![id] = SetFields(events[id], u)]
        /\ joined' = [i \in 1..Len(joined) |->
                        IF joined[i].eventId = id
                        THEN [joined[i] EXCEPT !.eventTitle = u.title,
                                               !.eventType = u.eventType,
                                               !.thumbnail = u.thumbnail,
                                               !.location = u.location,
                                               !.eventDate = u.eventDate]
                        ELSE joined[i]]
        /\ Answer(p, "update", RespCount(200, "Event updated successfully.", 1))
  /\ UNCHANGED <<clock, nreq, probe, proc>>

\* An update that also stamps the document with the time of the write.
UpdateWriteStamp(p) ==
  /\ req[p].op = "update" /\ req[p].pc = "write"
  /\ LET id == req[p].id
         new == [SetFields(events[id], req[p].doc) EXCEPT !.createdAt = clock]
     IN /\ id \in 1..Len(events)
        /\ events' = [events EXCEPT ![id] = new]
        /\ Answer(p, "update",
                  RespCount(200, "Event updated successfully.",
                            IF new = events[id] THEN 0 ELSE 1))
  /\ UNCHANGED <<clock, joined, nreq, probe, proc>>

\* eventsCollection.updateOne({_id}, {$set}) and the answer (lines 301-310).
UpdateWrite(p) ==
  /\ req[p].op = "update" /\ req[p].pc = "write"
  /\ LET id == req[p].id
         new == SetFields(events[id], req[p].doc)
     IN /\ id \in 1..Len(events)
        /\ events' = [events EXCEPT ![id] = new]
        /\ Answer(p, "update",
                  RespCount(200, "Event updated successfully.",
                            IF new = events[id] THEN 0 ELSE 1))
  /\ UNCHANGED <<clock, joined, nreq, probe, proc>>

\* --------------------------------------------------------- GET /events/:id
\* A handler that answers a malformed id like an unknown one.
GetEventNotFound(p, id) ==
  /\ Free(p)
  /\ AfterInit(p)
  /\ LET event == IF IsValid(id) THEN FindEvent(ToObjectId(id)) ELSE NoDoc
     IN IF event = NoDoc THEN Answer(p, "get", Resp(404, "Event not found."))
        ELSE Answer(p, "get", RespDocs(200, <<event>>))
  /\ UNCHANGED <<clock, events, joined, probe>>

\* Lines 175-200: the check of the id, findOne and the answer.
GetEvent(p, id) ==
  /\ Free(p)
  /\ AfterInit(p)
  /\ LET event == IF IsValid(id) THEN FindEvent(ToObjectId(id)) ELSE NoDoc
     IN IF ~IsValid(id) THEN Answer(p, "get", Resp(400, "Invalid event id."))
        ELSE IF event = NoDoc THEN Answer(p, "get", Resp(404, "Event not found."))
        ELSE Answer(p, "get", RespDocs(200, <<event>>))
  /\ UNCHANGED <<clock, events, joined, probe>>

\* ------------------------------------------------- GET /events and filters
ListAll(p) ==
  /\ Free(p)
  /\ AfterInit(p)
  /\ \E s \in SortedByDate(events, 1..Len(events)) :
       Answer(p, "listAll", RespDocs(200, Docs(events, s)))
  /\ UNCHANGED <<clock, events, joined, probe>>

\* The handler reads the clock (line 113) and calls find.
ListUpcomingStart(p) ==
  /\ Free(p)
  /\ AfterInit(p)
  /\ req' = [req EXCEPT ![p] = [Idle EXCEPT !.op = "listUpcoming", !.pc = "find",
                                            !.now = clock]]
  /\ UNCHANGED <<clock, events, joined, probe>>

\* A find with $gte for $gt.
ListUpcomingFindFromNow(p) ==
  /\ req[p].op = "listUpcoming" /\ req[p].pc = "find"
  /\ \E s \in SortedByDate(events, {i \in 1..Len(events) : events[i].eventDate >= req[p].now}) :
       Answer(p, "listUpcoming", RespDocs(200, Docs(events, s)))
  /\ UNCHANGED <<clock, events, joined, nreq, probe, proc>>

\* find({eventDate: {$gt: now}}).sort({eventDate: 1}) and the answer.
ListUpcomingFind(p) ==
  /\ req[p].op = "listUpcoming" /\ req[p].pc = "find"
  /\ \E s \in SortedByDate(events, {i \in 1..Len(events) : events[i].eventDate > req[p].now}) :
       Answer(p, "listUpcoming", RespDocs(200, Docs(events, s)))
  /\ UNCHANGED <<clock, events, joined, nreq, probe, proc>>

ListByCreator(p, email) ==
  /\ Free(p)
  /\ AfterInit(p)
  /\ IF Falsy(email)
     THEN Answer(p, "listByCreator", Resp(400, "User email is required."))
     ELSE \E s \in SortedByDate(events, {i \in 1..Len(events) : events[i].creatorEmail = email}) :
            Answer(p, "listByCreator", RespDocs(200, Docs(events, s)))
  /\ UNCHANGED <<clock, events, joined, probe>>

\* ------------------------------------------------------- POST /join-event
\* A join document that names the joining user as the creator.
JoinDocOwnedByUser(event, userEmail, joinedAt) ==
  [eventId |-> event._id, userEmail |-> userEmail, joinedAt |-> joinedAt,
   eventTitle |-> event.title, eventType |-> event.eventType,
   thumbnail |-> event.thumbnail, location |-> event.location,
   eventDate |-> event.eventDate, creatorEmail |-> userEmail]

\* Lines 207-217.
JoinDoc(event, userEmail, joinedAt) ==
  [eventId |-> event._id, userEmail |-> userEmail, joinedAt |-> joinedAt,
   eventTitle |-> event.title, eventType |-> event.eventType,
   thumbnail |-> event.thumbnail, location |-> event.location,
   eventDate |-> event.eventDate, creatorEmail |-> event.creatorEmail]

\* The checks without the one of the id's form: a malformed id finds nothing.
JoinCheckEventLookupOnly(eventId, userEmail, event) ==
  IF Falsy(eventId.kind) \/ Falsy(userEmail)
    THEN Resp(400, "eventId and userEmail are required.")
  ELSE IF event = NoDoc THEN Resp(404, "Event not found.")
  ELSE NoResp

\* Lines 170-193: the answer of the checks in front of the duplicate check,
\* given what findOne returned, or NoResp.
JoinCheckEvent(eventId, userEmail, event) ==
  IF Falsy(eventId.kind) \/ Falsy(userEmail)
    THEN Resp(400, "eventId and userEmail are required.")
  ELSE IF ~IsValid(eventId) THEN Resp(400, "Invalid eventId.")
  ELSE IF event = NoDoc THEN Resp(404, "Event not found.")
  ELSE NoResp

\* The handler from the request to the findOne on joinedEvents.
JoinStart(p, eventId, userEmail) ==
  /\ Free(p)
  /\ AfterInit(p)
  /\ LET event == IF IsValid(eventId) THEN FindEvent(ToObjectId(eventId)) ELSE NoDoc
         r == JoinCheckEvent(eventId, userEmail, event)
     IN IF r # NoResp
        THEN Answer(p, "join", r)
        ELSE req' = [req EXCEPT ![p] = [Idle EXCEPT !.op = "join", !.pc = "check",
                                                    !.email = userEmail, !.doc = event]]
  /\ UNCHANGED <<clock, events, joined, probe>>

\* joinedCollection.findOne({eventId, userEmail}) and the code after it
\* (lines 195-217), which reads the clock.
JoinCheck(p) ==
  /\ req[p].op = "join" /\ req[p].pc = "check"
  /\ IF FindJoined(req[p].doc._id, req[p].email)
     THEN Answer(p, "join", Resp(400, "You have already joined this event."))
     ELSE req' = [req EXCEPT ![p] = [@ EXCEPT !.pc = "insert", !.seen = Len(joined),
                                              !.doc = JoinDoc(req[p].doc, req[p].email, clock)]]
  /\ UNCHANGED <<clock, events, joined, nreq, probe, proc>>

\* An insert that looks for the pair once more and answers the duplicate's
\* 400 when it is stored.
JoinInsertRecheck(p) ==
  /\ req[p].op = "join" /\ req[p].pc = "insert"
  /\ Len(joined) < MaxJoins
  /\ IF \E i \in 1..Len(joined) :
          joined[i].eventId = req[p].doc.eventId /\ joined[i].userEmail = req[p].doc.userEmail
     THEN /\ Answer(p, "join", Resp(400, "You have already joined this event."))
          /\ UNCHANGED joined
     ELSE /\ joined' = Append(joined, [_id |-> Len(joined) + 1] @@ req[p].doc)
          /\ Answer(p, "join",
                    RespId(201, "You have successfully joined this event.", Len(joined) + 1))
  /\ UNCHANGED <<clock, events, nreq, probe, proc>>

\* joinedCollection.insertOne(joinDoc) and the 201 answer (lines 219-225).
JoinInsert(p) ==
  /\ req[p].op = "join" /\ req[p].pc = "insert"
  /\ Len(joined) < MaxJoins
  /\ LET id == Len(joined) + 1
     IN /\ joined' = Append(joined, [_id |-> id] @@ req[p].doc)
        /\ Answer(p, "join", RespId(201, "You have successfully joined this event.", id))
  /\ UNCHANGED <<clock, events, nreq, probe, proc>>

\* ------------------------------------------------------------ GET /joined
\* A find with an empty filter: every user's Participations.
ListByUserAll(p, userEmail) ==
  /\ Free(p)
  /\ AfterInit(p)
  /\ IF Falsy(userEmail)
     THEN Answer(p, "listByUser", Resp(400, "User email is required."))
     ELSE \E s \in SortedByDate(joined, 1..Len(joined)) :
            Answer(p, "listByUser", RespDocs(200, Docs(joined, s)))
  /\ UNCHANGED <<clock, events, joined, probe>>

ListByUser(p, userEmail) ==
  /\ Free(p)
  /\ AfterInit(p)
  /\ IF Falsy(userEmail)
     THEN Answer(p, "listByUser", Resp(400, "User email is required."))
     ELSE \E s \in SortedByDate(joined, {i \in 1..Len(joined) : joined[i].userEmail = userEmail}) :
            Answer(p, "listByUser", RespDocs(200, Docs(joined, s)))
  /\ UNCHANGED <<clock, events, joined, probe>>

\* ------------------------------------------------------------ store errors
\* The message of a handler's catch block.
FailureMessage(o) ==
  CASE o = "create" -> "Failed to create event"
    [] o = "update" -> "Failed to update event."
    [] o = "get" -> "Failed to load event details."
    [] o = "listAll" -> "Failed to load events"
    [] o = "listUpcoming" -> "Failed to load upcoming events"
    [] o = "listByCreator" -> "Failed to load user events"
    [] o = "join" -> "Failed to join event."
    [] o = "listByUser" -> "Failed to load joined events"

\* A catch block that answers as if nothing had happened.
StoreErrorSwallowed(p) ==
  /\ Waiting(p) /\ req[p].pc # "connect"
  /\ Answer(p, req[p].op, Resp(200, ""))
  /\ UNCHANGED <<clock, events, joined, nreq, probe, proc>>

\* The store call a handler waits for throws: its catch block answers 500.
StoreError(p) ==
  /\ Waiting(p) /\ req[p].pc # "connect"
  /\ Answer(p, req[p].op, Resp(500, FailureMessage(req[p].op)))
  /\ UNCHANGED <<clock, events, joined, nreq, probe, proc>>

\* The first store call of a handler throws.  The handlers with checks in
\* front of that call get there with a request that passes them.
Ops == {"update", "get", "listAll", "listByCreator", "join", "listByUser"}

FirstCallError(p, o) ==
  /\ Free(p)
  /\ AfterInit(p)
  /\ Answer(p, o, Resp(500, FailureMessage(o)))
  /\ UNCHANGED <<clock, events, joined, probe>>

\* ------------------------------------------------------------ specification
\* An :id of a route: the router matches no empty one.
ParamIds == IdStrings \ {NoId}

\* The store executes the call the handler of slot p waits for.
StoreStep(p) ==
  \/ CreateInsert(p)
  \/ UpdateWrite(p)
  \/ ListUpcomingFind(p)
  \/ JoinCheck(p)
  \/ JoinInsert(p)
  \/ StoreError(p)

\* Requests arrive at any time and overlap; a request takes the first slot
\* that has no handler waiting.  The bodies are those of FewBodies.
FirstFree == {p \in Procs : ~Waiting(p) /\ \A q \in 1..(p - 1) : Waiting(q)}

Next ==
  \/ Tick
  \/ \E p \in FirstFree, b \in FewBodies, date \in DateStrings, e \in Emails, skew \in 0..1 :
       CreateStart(p, b, date, e, skew)
  \/ \E p \in FirstFree, id \in ParamIds, b \in FewBodies, date \in DateStrings, e \in Emails :
       UpdateStart(p, id, b, date, e)
  \/ \E p \in FirstFree, id \in ParamIds : GetEvent(p, id)
  \/ \E p \in FirstFree : ListAll(p)
  \/ \E p \in FirstFree : ListUpcomingStart(p)
  \/ \E p \in FirstFree, e \in Emails : ListByCreator(p, e)
  \/ \E p \in FirstFree, id \in IdStrings, e \in Emails : JoinStart(p, id, e)
  \/ \E p \in FirstFree, e \in Emails : ListByUser(p, e)
  \/ \E p \in FirstFree, o \in Ops : FirstCallError(p, o)
  \/ \E p \in Procs : StoreStep(p)

Spec == Init /\ [][Next]_vars

\* One request at a time: a request arrives when no handler is waiting.
Quiet == IF \A q \in Procs : ~Waiting(q) THEN {1} ELSE {}

NextSeq ==
  \/ Tick
  \/ \E p \in Quiet, b \in FewBodies, date \in DateStrings, e \in Emails, skew \in 0..1 :
       CreateStart(p, b, date, e, skew)
  \/ \E p \in Quiet, id \in ParamIds, b \in FewBodies, date \in DateStrings, e \in Emails :
       UpdateStart(p, id, b, date, e)
  \/ \E p \in Quiet, id \in ParamIds : GetEvent(p, id)
  \/ \E p \in Quiet : ListAll(p)
  \/ \E p \in Quiet : ListUpcomingStart(p)
  \/ \E p \in Quiet, e \in Emails : ListByCreator(p, e)
  \/ \E p \in Quiet, id \in IdStrings, e \in Emails : JoinStart(p, id, e)
  \/ \E p \in Quiet, e \in Emails : ListByUser(p, e)
  \/ \E p \in Quiet, o \in Ops : FirstCallError(p, o)
  \/ StoreStep(1)

SpecSeq == Init /\ [][NextSeq]_vars

\* ------------------------------------------------- one request, every input
\* SpecProbe runs one request, drawn from every combination of the input
\* values, against a store that earlier requests have filled.

\* The events collection after POST /events {all "A", eventDate 1, a@x.com}
\* at time 0, and the joinedEvents collection after b@x.com joined it.
ProbeEvent ==
  [_id |-> 1] @@ CreateDoc(Body("A", {}), NewDate([text |-> "iso", ms |-> 1]), "a@x.com", 0)
ProbeJoin == [_id |-> 1] @@ JoinDoc(ProbeEvent, "b@x.com", 0)
ProbeStores ==
  {<< <<>>, <<>> >>, << <<ProbeEvent>>, <<>> >>, << <<ProbeEvent>>, <<ProbeJoin>> >>}

ProbeRequests ==
  {Request("create", NoId, b, date, e, skew) :
     b \in Bodies, date \in DateStrings, e \in Emails, skew \in 0..1}
  \cup {Request("update", id, b, date, e, 0) :
          id \in ParamIds, b \in Bodies, date \in DateStrings, e \in Emails}
  \cup {Request("get", id, Body("A", {}), NoDate, "", 0) : id \in ParamIds}
  \cup {Request("join", id, Body("A", {}), NoDate, e, 0) : id \in IdStrings, e \in Emails}
  \cup {Request(o, NoId, Body("A", {}), NoDate, e, 0) :
          o \in {"listByCreator", "listByUser"}, e \in Emails}
  \cup {Request(o, NoId, Body("A", {}), NoDate, "", 0) : o \in {"listAll", "listUpcoming"}}

InitProbe ==
  /\ clock \in 0..MaxTime
  /\ \E st \in ProbeStores : events = st[1] /\ joined = st[2]
  /\ req = [p \in Procs |-> Idle]
  /\ nreq = 0
  /\ probe \in ProbeRequests
  /\ proc = Warm

\* The checks in front of a handler's first store call pass (lines 227-239 and
\* 179 of the router, 144; 170-182 and 241 of the entry point).
CallsStore(r) ==
  CASE r.op = "update" -> IsValid(r.id) /\ ~Falsy(r.email)
    [] r.op = "get" -> IsValid(r.id)
    [] r.op = "join" -> ~Falsy(r.id.kind) /\ ~Falsy(r.email) /\ IsValid(r.id)
    [] r.op \in {"listByCreator", "listByUser"} -> ~Falsy(r.email)
    [] r.op = "listAll" -> TRUE
    [] OTHER -> FALSE

\* The probe, if it has not been received yet and is for route o.
Arriving(o) == IF nreq = 0 /\ probe.op = o THEN {probe} ELSE {}

\* The handler of the probe's route takes the probe.
HandleProbe ==
  \/ \E r \in Arriving("create") : CreateStart(1, r.b, r.date, r.email, r.skew)
  \/ \E r \in Arriving("update") : UpdateStart(1, r.id, r.b, r.date, r.email)
  \/ \E r \in Arriving("get") : GetEvent(1, r.id)
  \/ \E r \in Arriving("listAll") : ListAll(1)
  \/ \E r \in Arriving("listUpcoming") : ListUpcomingStart(1)
  \/ \E r \in Arriving("listByCreator") : ListByCreator(1, r.email)
  \/ \E r \in Arriving("join") : JoinStart(1, r.id, r.email)
  \/ \E r \in Arriving("listByUser") : ListByUser(1, r.email)
  \/ \E o \in Ops : \E r \in Arriving(o) : CallsStore(r) /\ FirstCallError(1, o)

\* The id a create has answered (eventId of the 201), while it is the only
\* request so far.
CreatedIds ==
  IF nreq = 1 /\ req[1].op = "create" /\ req[1].pc = "done" /\ req[1].resp.status = 201
  THEN {[kind |-> "hex", n |-> req[1].resp.id]} ELSE {}

\* The client reads back the Event it has created: GET /events/:id with the
\* eventId of the answer.
ReadBack == \E id \in CreatedIds : GetEvent(1, id)

NextProbe ==
  \/ Tick
  \/ HandleProbe
  \/ ReadBack
  \/ StoreStep(1)

SpecProbe == InitProbe /\ [][NextProbe]_vars

\* ------------------------------------------------------ a starting process
\* SpecInit starts the process cold, with a store that holds one Event.  The
\* rest of init runs in the step in which the route handler takes the
\* request, as `await init()` returns into app(req, res) with no I/O in
\* between.
\* module.exports (lines 271-283) in a process that has not connected: a
\* request that finds the flag false calls client.connect() (line 43).
InitStart(p) ==
  /\ req[p].pc \in {"idle", "done"} /\ nreq < MaxRequests
  /\ ~proc.initialized
  /\ nreq' = nreq + 1
  /\ req' = [req EXCEPT ![p] = [Idle EXCEPT !.op = "init", !.pc = "connect"]]
  /\ proc' = [proc EXCEPT !.connects = @ + 1]
  /\ UNCHANGED <<clock, events, joined, probe>>

\* A failure that leaves the flag set, as if it were set before the await.
InitErrorLatched(p) ==
  /\ req[p].pc = "connect"
  /\ Answer(p, "init", Resp(500, "Server initialization failed."))
  /\ proc' = [proc EXCEPT !.initialized = TRUE]
  /\ UNCHANGED <<clock, events, joined, nreq, probe>>

\* connect() rejects: the catch block of lines 275-282 answers.
InitError(p) ==
  /\ req[p].pc = "connect"
  /\ Answer(p, "init", Resp(500, "Server initialization failed."))
  /\ UNCHANGED <<clock, events, joined, nreq, probe, proc>>

\* The slots a route handler can run in: that of a new request, or one whose
\* connect returns.
Serving == FirstFree \cup {p \in Procs : req[p].pc = "connect"}

InitCold ==
  /\ clock = 0
  /\ events = <<ProbeEvent>>
  /\ joined = <<>>
  /\ req = [p \in Procs |-> Idle]
  /\ nreq = 0
  /\ probe = NoProbe
  /\ proc = Cold

NextInit ==
  \/ Tick
  \/ \E p \in FirstFree : InitStart(p)
  \/ \E p \in Procs : InitError(p)
  \/ \E p \in Serving, date \in DateStrings, e \in Emails :
       CreateStart(p, Body("A", {}), date, e, 0)
  \/ \E p \in Serving, id \in ParamIds, date \in DateStrings, e \in Emails :
       UpdateStart(p, id, Body("B", {}), date, e)
  \/ \E p \in Serving, id \in ParamIds : GetEvent(p, id)
  \/ \E p \in Serving : ListAll(p)
  \/ \E p \in Serving : ListUpcomingStart(p)
  \/ \E p \in Serving, e \in Emails : ListByCreator(p, e)
  \/ \E p \in Serving, id \in IdStrings, e \in Emails : JoinStart(p, id, e)
  \/ \E p \in Serving, e \in Emails : ListByUser(p, e)
  \/ \E p \in Serving, o \in Ops : FirstCallError(p, o)
  \/ \E p \in Procs : StoreStep(p)

SpecInit == InitCold /\ [][NextInit]_vars

\* ================================================================== claims
\* The Participations of coll for (eventId e, userEmail u).
StoredIn(coll, e, u) == {i \in 1..Len(coll) : coll[i].eventId = e /\ coll[i].userEmail = u}
Stored(e, u) == StoredIn(joined, e, u)

\* Slot p's join waits for its insertOne: it has passed the duplicate check.
JoinInserting(p) == req[p].op = "join" /\ req[p].pc = "insert"

\* Slot p's handler answers in this step.
Answers(p) == Waiting(p) /\ req'[p].pc = "done"

\* C1, as stated: in every reachable state, under any interleaving of Join
\* calls, the Participation Store holds at most one Participation per
\* (eventId, userEmail) pair.
C1_AtMostOnePerPair ==
  \A i, j \in 1..Len(joined) :
    (joined[i].eventId = joined[j].eventId /\ joined[i].userEmail = joined[j].userEmail)
      => i = j

\* C1, amended: a Join inserts only when its duplicate check found no
\* Participation of the pair, so a second Participation of a pair is stored
\* only by a Join that overlaps the first one: every Participation of the
\* pair that is in the store when the Join's insert commits was inserted
\* after that Join's duplicate check.
C1_DuplicateOnlyByOverlap ==
  [][\A p \in Procs :
       (JoinInserting(p) /\ Answers(p) /\ req'[p].resp.status = 201)
         => \A i \in Stored(req[p].doc.eventId, req[p].doc.userEmail) : i > req[p].seen]_vars

\* C1, witness: a Participation of a pair is stored while another Join of
\* that pair, past its duplicate check, still waits for its insert.
C1_OverlapInProgress ==
  \E p \in Procs :
    JoinInserting(p) /\ Stored(req[p].doc.eventId, req[p].doc.userEmail) # {}

\* C3: two Join calls of one pair that both passed the duplicate check both
\* succeed: the insert of the second commits although the first's
\* Participation is stored, it answers 201, and the pair then has two
\* Participations.
C3_SecondInsertCommits ==
  [][\A p \in Procs :
       (/\ JoinInserting(p) /\ Answers(p) /\ req'[p].resp.status # 500
        /\ Stored(req[p].doc.eventId, req[p].doc.userEmail) # {})
         => /\ req'[p].resp.status = 201
            /\ joined' = Append(joined, [_id |-> Len(joined) + 1] @@ req[p].doc)
            /\ Cardinality(StoredIn(joined', req[p].doc.eventId, req[p].doc.userEmail)) >= 2]_vars

\* C3, witness: two Participations of one pair are stored and both slots
\* have answered 201 to a Join.
C3_BothJoinsSucceeded ==
  /\ \E i, j \in 1..Len(joined) :
       /\ i < j
       /\ joined[i].eventId = joined[j].eventId
       /\ joined[i].userEmail = joined[j].userEmail
  /\ \A p \in Procs :
       req[p].op = "join" /\ req[p].pc = "done" /\ req[p].resp.status = 201

\* C6, as stated: an Event written by Create or Update has, at the moment
\* of the write, an eventDate strictly later than the clock; every stored
\* Event has eventDate > createdAt.
C6_DateAfterWriteTime ==
  /\ [](\A i \in 1..Len(events) : events[i].eventDate > events[i].createdAt)
  /\ [][\A i \in 1..Len(events') :
          (i > Len(events) \/ events'[i] # events[i]) => events'[i].eventDate > clock']_vars

\* C10: a stored Participation is never changed or removed: every step
\* keeps every stored Participation as it is.
C10_ParticipationFrozen ==
  [][\A i \in 1..Len(joined) : i <= Len(joined') /\ joined'[i] = joined[i]]_vars

\* C10, witness: the Event of a stored Participation has been updated: its
\* title and eventDate are no longer those of the snapshot.
C10_SnapshotIsStale ==
  \E i \in 1..Len(joined) :
    /\ events[joined[i].eventId].title # joined[i].eventTitle
    /\ events[joined[i].eventId].eventDate # joined[i].eventDate

\* C2: with one request at a time, a Join of a pair that has no
\* Participation succeeds and stores exactly one; a Join of a pair that has
\* one answers "already joined" and writes nothing; ListByUser(u) then
\* returns, for each Event, exactly the one Participation u has for it.
\* (A 500 is the store call itself failing.)
C2_SecondJoinConflicts ==
  [][/\ (/\ req[1].op = "join" /\ req[1].pc = "check" /\ req'[1] # req[1]
         /\ req'[1].resp.status # 500)
          => IF Stored(req[1].doc._id, req[1].email) # {}
             THEN /\ req'[1] = Done("join", Resp(400, "You have already joined this event."))
                  /\ joined' = joined
             ELSE req'[1].pc = "insert"
     /\ (JoinInserting(1) /\ Answers(1) /\ req'[1].resp.status # 500)
          => /\ req'[1].resp.status = 201
             /\ Cardinality(StoredIn(joined', req[1].doc.eventId, req[1].doc.userEmail)) = 1
     /\ (req'[1].op = "listByUser" /\ nreq' = nreq + 1)
          => \A u \in Emails \ {""} :
               ListByUser(1, u)
                 => LET d == req'[1].resp.docs
                    IN /\ \A k \in 1..Len(d) : d[k].userEmail = u
                       /\ \A e \in 1..Len(events) :
                            /\ Cardinality({k \in 1..Len(d) : d[k].eventId = e})
                                 = Cardinality(Stored(e, u))
                            /\ Cardinality(Stored(e, u)) <= 1]_vars

\* C2, witness: the second Join of a pair has answered "already joined" and
\* the store holds the one Participation of the first.
C2_ConflictAnswered ==
  /\ req[1] = Done("join", Resp(400, "You have already joined this event."))
  /\ Len(joined) = 1

\* ------------------------------------------- claims about one request
\* The step in which the probe's handler runs, up to its answer or to the
\* store call it then waits for; `clock` is the time the handler reads.
Handled == nreq = 0 /\ nreq' = 1

\* The Event the probe's id names, if there is one.
Target ==
  IF probe.id.kind = "hex" /\ probe.id.n \in 1..Len(events)
  THEN events[probe.id.n] ELSE NoDoc

\* The store call of the step failed (a 500 answer).
Failed == req'[1].resp.status = 500

\* A create or update body that must be refused at time now: a field is
\* empty or missing, the date is no date, or the date is not after now.
InvalidEventFields(r, now) ==
  \/ \E f \in TextFields : r.b[f] = ""
  \/ r.date.text # "iso"
  \/ r.date.ms <= now

\* C4, as stated: an Update of an existing Event whose requestorEmail
\* differs from the stored creatorEmail answers 403, whatever the other
\* fields are, and leaves the stores as they were.
C4_NonCreatorGets403 ==
  [][(/\ Handled /\ probe.op = "update" /\ ~Failed
      /\ Target # NoDoc /\ probe.email # Target.creatorEmail)
       => /\ req'[1] = Done("update", Resp(403, "You are not allowed to update this event."))
          /\ events' = events /\ joined' = joined]_vars

\* C4, amended: the same for a requestorEmail that is given (not empty): a
\* missing requestorEmail is answered 400 before the Event is looked up.
C4_OtherUserGets403 ==
  [][(/\ Handled /\ probe.op = "update" /\ ~Failed
      /\ Target # NoDoc /\ probe.email # "" /\ probe.email # Target.creatorEmail)
       => /\ req'[1] = Done("update", Resp(403, "You are not allowed to update this event."))
          /\ events' = events /\ joined' = joined]_vars

\* C4, witness: a 403 to an update by another user whose body has no title
\* and no parseable date.
C4_Refused403 ==
  /\ req[1] = Done("update", Resp(403, "You are not allowed to update this event."))
  /\ probe.b.title = "" /\ probe.date.text = "garbage"
  /\ events = <<ProbeEvent>>

\* C5: Create, and Update by the creator of an existing Event, answer 400
\* when a required field is empty or missing, when eventDate is no date, and
\* when eventDate is at or before the time the handler reads; the stores
\* are left as they were and no write is pending.
C5_InvalidFieldsGet400 ==
  [][Handled =>
       /\ (probe.op = "create" /\ (InvalidEventFields(probe, clock) \/ probe.email = ""))
            => /\ req'[1].pc = "done" /\ req'[1].resp.status = 400
               /\ events' = events /\ joined' = joined
       /\ (/\ probe.op = "update" /\ ~Failed
           /\ Target # NoDoc /\ probe.email = Target.creatorEmail
           /\ InvalidEventFields(probe, clock))
            => /\ req'[1].pc = "done" /\ req'[1].resp.status = 400
               /\ events' = events /\ joined' = joined]_vars

\* C5, witness: the creator's update with eventDate equal to the current
\* time has been answered 400.
C5_DateNowRefused ==
  /\ req[1] = Done("update", Resp(400, "Event date must be a future date."))
  /\ probe.date.text = "iso" /\ probe.date.ms = clock
  /\ \A f \in TextFields : probe.b[f] # ""
  /\ events = <<ProbeEvent>>

\* The check an Update answer comes from.
Stage(m) ==
  CASE m = "Invalid event id." -> "id"
    [] m = "Event not found." -> "existence"
    [] m \in {"requestorEmail is required.", "You are not allowed to update this event."}
         -> "authorization"
    [] m \in {"All fields are required.", "Invalid event date.",
              "Event date must be a future date."} -> "fields"
    [] OTHER -> "none"

\* C7, as stated: the answer of an Update is that of the first failing
\* check in the order id well-formedness, existence, authorization (a
\* missing or non-matching requestorEmail), field validation.
C7_FourCheckOrder ==
  [][(Handled /\ probe.op = "update" /\ ~Failed)
       => Stage(req'[1].resp.message) =
            IF probe.id.kind # "hex" THEN "id"
            ELSE IF Target = NoDoc THEN "existence"
            ELSE IF probe.email # Target.creatorEmail THEN "authorization"
            ELSE IF InvalidEventFields(probe, clock) THEN "fields"
            ELSE "none"]_vars

\* C7, amended: the order is id well-formedness (400), presence of
\* requestorEmail (400), existence (404), requestorEmail = creatorEmail
\* (403), field validation (400).
C7_FiveCheckOrder ==
  [][(Handled /\ probe.op = "update" /\ ~Failed)
       => LET m == req'[1].resp.message
          IN IF probe.id.kind # "hex" THEN m = "Invalid event id."
             ELSE IF probe.email = "" THEN m = "requestorEmail is required."
             ELSE IF Target = NoDoc THEN m = "Event not found."
             ELSE IF probe.email # Target.creatorEmail
               THEN m = "You are not allowed to update this event."
             ELSE IF InvalidEventFields(probe, clock) THEN Stage(m) = "fields"
             ELSE m = "" /\ req'[1].pc = "write"]_vars

\* C7, witness: an update of an unknown id without requestorEmail has been
\* answered "requestorEmail is required.".
C7_MissingEmailBeforeLookup ==
  /\ req[1] = Done("update", Resp(400, "requestorEmail is required."))
  /\ probe.id.kind = "hex" /\ Target = NoDoc

\* C8, as stated: Get and Update with an id that is no well-formed
\* identifier answer 404, as for a well-formed id that matches no Event.
C8_MalformedIdGets404 ==
  [][(Handled /\ probe.op \in {"get", "update"} /\ probe.id.kind # "hex")
       => req'[1].resp.status = 404]_vars

\* C8, amended: they answer 400 "Invalid event id." and touch no store; 404
\* is the answer for a well-formed id that matches no Event (for Update,
\* when requestorEmail is given).
C8_MalformedIdGets400 ==
  [][(Handled /\ probe.op \in {"get", "update"})
       => /\ probe.id.kind # "hex"
               => /\ req'[1] = Done(probe.op, Resp(400, "Invalid event id."))
                  /\ events' = events /\ joined' = joined
          /\ (/\ probe.id.kind = "hex" /\ Target = NoDoc /\ ~Failed
              /\ (probe.op = "update" => probe.email # ""))
               => req'[1] = Done(probe.op, Resp(404, "Event not found."))]_vars

\* C8, witness: a Get with a malformed id has been answered 400.
C8_GetMalformedAnswered ==
  /\ req[1] = Done("get", Resp(400, "Invalid event id."))
  /\ probe.id.kind = "junk"

\* C9: Join answers 400 "required" for a missing eventId or userEmail, else
\* 400 "Invalid eventId." (never 404) for a malformed eventId, else 404 for
\* an id that matches no Event, else "already joined" when the pair has a
\* Participation; a Join that does not answer 201 changes no store.
C9_JoinFailureOrder ==
  [][probe.op = "join" =>
       /\ Handled =>
            IF probe.id.kind = "" \/ probe.email = ""
              THEN req'[1] = Done("join", Resp(400, "eventId and userEmail are required."))
            ELSE IF probe.id.kind # "hex"
              THEN req'[1] = Done("join", Resp(400, "Invalid eventId."))
            ELSE IF Failed THEN TRUE
            ELSE IF Target = NoDoc
              THEN req'[1] = Done("join", Resp(404, "Event not found."))
            ELSE req'[1].pc = "check"
       /\ (req[1].pc = "check" /\ req'[1] # req[1] /\ ~Failed)
            => IF Stored(probe.id.n, probe.email) # {}
               THEN req'[1] = Done("join", Resp(400, "You have already joined this event."))
               ELSE req'[1].pc = "insert"
       /\ events' = events
       /\ joined' # joined => req'[1].pc = "done" /\ req'[1].resp.status = 201]_vars

\* C9, witness: a Join with a malformed eventId and a userEmail has been
\* answered 400 "Invalid eventId.".
C9_MalformedJoinAnswered ==
  /\ req[1] = Done("join", Resp(400, "Invalid eventId."))
  /\ probe.id.kind = "junk" /\ probe.email # ""

\* ------------------------------------------------ claims about the writes
\* The snapshot a Participation of event e would carry.
SnapshotOf(e) ==
  [eventTitle |-> e.title, eventType |-> e.eventType, thumbnail |-> e.thumbnail,
   location |-> e.location, eventDate |-> e.eventDate, creatorEmail |-> e.creatorEmail]

\* The snapshot fields of Participation j.
SnapshotIn(j) == [f \in DOMAIN SnapshotOf(ProbeEvent) |-> j[f]]

\* C11: a Join that answers 201 stores exactly one Participation, for the
\* Event's id and the caller's userEmail, whose snapshot equals the Event's
\* fields at the moment the Participation is written, also when an Update
\* of the Event runs concurrently.
C11_SnapshotAtWriteTime ==
  [][\A p \in Procs :
       (JoinInserting(p) /\ Answers(p) /\ req'[p].resp.status = 201)
         => /\ Len(joined') = Len(joined) + 1
            /\ \A i \in 1..Len(joined) : joined'[i] = joined[i]
            /\ LET j == joined'[Len(joined')]
               IN /\ j.eventId = req[p].doc.eventId
                  /\ j.userEmail = req[p].doc.userEmail
                  /\ j.eventId \in 1..Len(events)
                  /\ SnapshotIn(j) = SnapshotOf(events[j.eventId])]_vars

\* Slot p's update waits for its updateOne.
UpdateWriting(p) == req[p].op = "update" /\ req[p].pc = "write"

\* C12: an Update that answers 200 replaces title, description, eventType,
\* thumbnail, location and eventDate of the addressed Event with the
\* supplied values and changes nothing else; in every step each Event keeps
\* its _id, creatorEmail and createdAt, an Event changes only by such an
\* Update, and no Event is removed.
C12_UpdateReplacesMutableFields ==
  [][/\ Len(events') >= Len(events)
     /\ \A i \in 1..Len(events) :
          /\ events'[i]._id = events[i]._id
          /\ events'[i].creatorEmail = events[i].creatorEmail
          /\ events'[i].createdAt = events[i].createdAt
          /\ events'[i] # events[i]
               => \E p \in Procs : UpdateWriting(p) /\ Answers(p) /\ req[p].id = i
     /\ \A p \in Procs :
          (UpdateWriting(p) /\ Answers(p) /\ req'[p].resp.status = 200)
            => /\ Len(events') = Len(events)
               /\ \A f \in DOMAIN req[p].doc : events'[req[p].id][f] = req[p].doc[f]
               /\ DOMAIN req[p].doc = TextFields \cup {"eventDate"}
               /\ \A i \in 1..Len(events) : i # req[p].id => events'[i] = events[i]
               /\ joined' = joined]_vars

\* C12, witness: an Update has changed one of two stored Events, after the
\* clock has moved on from that Event's createdAt.
C12_OneOfTwoUpdated ==
  \E p \in Procs :
    /\ req[p].op = "update" /\ req[p].pc = "done"
    /\ req[p].resp.status = 200 /\ req[p].resp.count = 1
    /\ Len(events) = 2
    /\ \E i \in 1..2 : events[i].createdAt < clock /\ events[i].title = "B"

\* Slot p's listUpcoming waits for its find.
UpcomingFinding(p) == req[p].op = "listUpcoming" /\ req[p].pc = "find"

\* C13: ListUpcoming, with now the time its handler read, answers exactly
\* the stored Events whose eventDate is greater than now, each once, in
\* ascending eventDate order: an Event whose eventDate equals now is not
\* among them; the call changes no store.
C13_UpcomingStrictlyLater ==
  [][\A p \in Procs :
       (UpcomingFinding(p) /\ Answers(p) /\ req'[p].resp.status = 200)
         => LET d == req'[p].resp.docs
                now == req[p].now
            IN /\ {d[k] : k \in 1..Len(d)} = {events[i] : i \in {j \in 1..Len(events) : events[j].eventDate > now}}
               /\ Len(d) = Cardinality({j \in 1..Len(events) : events[j].eventDate > now})
               /\ req'[p].resp.count = Len(d)
               /\ \A k \in 1..Len(d) : d[k].eventDate # now
               /\ \A k, l \in 1..Len(d) : k < l => d[k].eventDate <= d[l].eventDate
               /\ events' = events /\ joined' = joined]_vars

\* C13, witness: of two stored Events, one dated at the current time, a
\* ListUpcoming has answered the other one only.
C13_EventAtNowLeftOut ==
  \E p \in Procs :
    /\ req[p].op = "listUpcoming" /\ req[p].pc = "done" /\ req[p].resp.status = 200
    /\ Len(events) = 2 /\ Len(req[p].resp.docs) = 1
    /\ \E i \in 1..2 : events[i].eventDate = clock
    /\ req[p].resp.docs[1].eventDate > clock

\* --------------------------------------------- claims about create and get
\* The Event e carries the fields of request r.
CarriesFields(e, r) ==
  /\ \A f \in TextFields : e[f] = r.b[f]
  /\ e.eventDate = r.date.ms
  /\ e.creatorEmail = r.email

\* C14: a Create with all fields non-empty and eventDate later than now
\* succeeds (unless the store call fails) and inserts exactly one Event; a
\* Get of the returned id afterwards answers the same title, description,
\* eventType, thumbnail, location, eventDate and creatorEmail, and a
\* createdAt not later than the time of the Get.
C14_CreateThenGet ==
  [][probe.op = "create"
       => /\ (Handled /\ ~InvalidEventFields(probe, clock) /\ probe.email # "")
               => req'[1].pc = "insert" /\ events' = events
          /\ (req[1].pc = "insert" /\ Answers(1) /\ ~Failed)
               => /\ req'[1].resp.status = 201
                  /\ Len(events') = Len(events) + 1
                  /\ \A i \in 1..Len(events) : events'[i] = events[i]
                  /\ req'[1].resp.id = events'[Len(events')]._id
                  /\ \A i \in 1..Len(events) : events[i]._id # req'[1].resp.id
                  /\ CarriesFields(events'[Len(events')], probe)
          /\ (nreq = 1 /\ nreq' = 2)
               => /\ req'[1].op = "get" /\ req'[1].resp.status = 200
                  /\ Len(req'[1].resp.docs) = 1
                  /\ LET e == req'[1].resp.docs[1]
                     IN /\ e._id = req[1].resp.id
                        /\ CarriesFields(e, probe)
                        /\ e.createdAt <= clock
                  /\ events' = events]_vars

\* C14, witness: a Create received while the clock advanced has been read
\* back, next to an older Event.
C14_ReadBack ==
  /\ nreq = 2 /\ req[1].op = "get" /\ req[1].resp.status = 200
  /\ probe.op = "create" /\ probe.skew = 1
  /\ Len(events) = 2 /\ req[1].resp.docs[1] = events[2]

\* ------------------------------------------------- claims about the process
\* C15: over any number of requests, also first requests that arrive
\* before initialization has finished, init calls connect at most once and
\* registers the routes at most once.
C15_InitRunsOnce == proc.connects <= 1 /\ proc.registered <= 1

\* Slot p's request waits for connect.
Connecting(p) == req[p].pc = "connect"

\* C20: when connect fails, its request is answered 500 "Server
\* initialization failed." without reaching a route handler (no store
\* changes, no route's answer) and the initialized flag is left as it is,
\* false when no init has completed; a request that finds the flag false
\* calls connect again; a request that finds it true does not, and the flag
\* never goes back to false.
C20_FailedInitIsRetried ==
  [][/\ \A p \in Procs :
          (Connecting(p) /\ req'[p].pc = "done" /\ req'[p].resp.status = 500
             /\ req'[p].op = "init")
            => /\ req'[p] = Done("init", Resp(500, "Server initialization failed."))
               /\ proc' = proc
               /\ proc.registered = 0 => ~proc'.initialized
               /\ events' = events /\ joined' = joined
     /\ (nreq' = nreq + 1 /\ ~proc.initialized)
          => /\ proc'.connects = proc.connects + 1
             /\ \E p \in Procs : ~Connecting(p) /\ req'[p] = [Idle EXCEPT !.op = "init", !.pc = "connect"]
             /\ events' = events /\ joined' = joined
     /\ proc.initialized => proc'.initialized /\ proc'.connects = proc.connects
     /\ (proc.registered = 0) = (~proc.initialized)]_vars

\* C20, witness: the first request's connect has failed and the second
\* request is connecting.
C20_SecondAttempt ==
  /\ nreq = 2 /\ proc.connects = 2 /\ ~proc.initialized
  /\ Connecting(1) /\ req[2] = Idle

\* --------------------------------------------- claims about store failures
\* C16: a handler whose store call fails answers 500 with its route's
\* failure message, once, and writes nothing: every answer of a waiting
\* handler is either that 500 or the route's own outcome together with its
\* effect on the store; an answer is final; a store changes only in a step
\* that answers 200 or 201; the slot of a failed request takes later
\* requests.
C16_StoreFailureIs500 ==
  [][/\ \A p \in Procs :
          /\ (req'[p] # req[p] /\ req'[p].resp.status = 500)
               => /\ req'[p] = Done(req'[p].op, Resp(500, FailureMessage(req'[p].op)))
                  /\ events' = events /\ joined' = joined
          /\ (Waiting(p) /\ Answers(p))
               => \/ req'[p].resp.status = 500
                  \/ /\ req[p].op = "create" /\ req'[p].resp.status = 201
                     /\ Len(events') = Len(events) + 1
                  \/ /\ req[p].op = "update" /\ req'[p].resp.status = 200
                     /\ req'[p].resp.message = "Event updated successfully."
                  \/ /\ req[p].op = "listUpcoming" /\ req'[p].resp.status = 200
                     /\ events' = events /\ joined' = joined
                  \/ /\ req[p].op = "join" /\ req[p].pc = "check"
                     /\ req'[p].resp.status = 400
                     /\ events' = events /\ joined' = joined
                  \/ /\ req[p].op = "join" /\ req[p].pc = "insert"
                     /\ req'[p].resp.status = 201
                     /\ Len(joined') = Len(joined) + 1
          /\ (req[p].pc = "done" /\ req'[p] # req[p]) => nreq' = nreq + 1
          /\ (req[p].resp.status = 500 /\ nreq < MaxRequests) => Free(p)
     /\ (events' # events \/ joined' # joined)
          => \E p \in Procs : Waiting(p) /\ Answers(p) /\ req'[p].resp.status \in {200, 201}]_vars

\* C16, witness: an update's updateOne has failed, the Event is as it was,
\* and a join in the other slot has been answered 201.
C16_FailedUpdateThenJoin ==
  /\ req[1] = Done("update", Resp(500, "Failed to update event."))
  /\ req[2].op = "join" /\ req[2].pc = "done" /\ req[2].resp.status = 201
  /\ Len(events) = 1 /\ events[1].title = "A" /\ Len(joined) = 1

\* ------------------------------------------- claims about reads and writes
\* The documents of coll' that differ from coll or are new.
Written(old, new) ==
  {i \in 1..Len(new) : i > Len(old) \/ new[i] # old[i]}

\* C17: a store changes only in the step in which one handler's last store
\* call executes and the handler answers 200 or 201 (so a handler's reads
\* precede its write and it writes at most once); that step writes exactly
\* one document of one collection; a handler that answers anything else
\* leaves the stores as they are, in that step and, having made no earlier
\* write, in the whole call.
C17_OneWriteAtTheEnd ==
  [][/\ (events' # events \/ joined' # joined)
          => /\ Cardinality({p \in Procs : req'[p] # req[p]}) = 1
             /\ \E p \in Procs :
                  /\ Waiting(p) /\ Answers(p) /\ req'[p].resp.status \in {200, 201}
                  /\ req[p].op \in {"create", "update", "join"}
             /\ Len(events') >= Len(events) /\ Len(joined') >= Len(joined)
             /\ Cardinality(Written(events, events')) + Cardinality(Written(joined, joined')) = 1
     /\ \A p \in Procs :
          /\ (req'[p] # req[p] /\ req'[p].pc = "done" /\ req'[p].resp.status \notin {200, 201})
               => events' = events /\ joined' = joined
          /\ (req'[p] # req[p] /\ req'[p].pc # "done")
               => events' = events /\ joined' = joined
          /\ (req'[p] # req[p] /\ req'[p].op \in {"get", "listAll", "listUpcoming", "listByCreator", "listByUser"})
               => events' = events /\ joined' = joined]_vars

\* C17, witness: an update has been refused with 403 and a join has been
\* answered 201; the stores hold the one Event and the one Participation.
C17_RefusedAndJoined ==
  \E p, q \in Procs :
    /\ req[p] = Done("update", Resp(403, "You are not allowed to update this event."))
    /\ req[q].op = "join" /\ req[q].pc = "done" /\ req[q].resp.status = 201
    /\ Len(events) = 1 /\ Len(joined) = 1

\* C18: in every reachable state each Participation's eventId is the _id of
\* a stored Event and its snapshot creatorEmail is that Event's
\* creatorEmail.
C18_ParticipationRefersToEvent ==
  \A i \in 1..Len(joined) :
    /\ joined[i].eventId \in 1..Len(events)
    /\ events[joined[i].eventId]._id = joined[i].eventId
    /\ joined[i].creatorEmail = events[joined[i].eventId].creatorEmail

\* C18, witness: two users, one of them not the creator, have joined the
\* same Event.
C18_TwoUsersJoined ==
  /\ Len(joined) = 2 /\ Len(events) = 1
  /\ joined[1].userEmail # joined[2].userEmail
  /\ joined[1].eventId = 1 /\ joined[2].eventId = 1

\* C19: under any interleaving, the requestorEmail of the call whose
\* updateOne commits equals the creatorEmail the Event has at that moment,
\* and an Event changes only in such a step.
C19_OnlyCreatorWrites ==
  [][/\ \A p \in Procs :
          (UpdateWriting(p) /\ Answers(p) /\ req'[p].resp.status = 200)
            => /\ req[p].id \in 1..Len(events)
               /\ req[p].email = events[req[p].id].creatorEmail
               /\ req[p].email = events'[req[p].id].creatorEmail
     /\ \A i \in 1..Len(events) :
          events'[i] # events[i]
            => \E p \in Procs :
                 /\ UpdateWriting(p) /\ Answers(p) /\ req[p].id = i
                 /\ req[p].email = events[i].creatorEmail]_vars

\* C19, witness: of two overlapping updates of one Event, both past the
\* creator check, one has committed and the other is about to.
C19_WriteInTheGap ==
  \E p, q \in Procs :
    /\ req[p].op = "update" /\ req[p].pc = "done" /\ req[p].resp.status = 200
    /\ req[p].resp.count = 1
    /\ UpdateWriting(q) /\ req[q].id = 1
    /\ Len(events) = 1 /\ events[1].title # req[q].doc.title
====
